---- MODULE Spec2Model ----
(***************************************************************************)
(* pdf-fts: incremental PDF indexing on top of SQLite + FTS5.              *)
(*                                                                         *)
(* The model follows internal/database (page table pdfs, index pdfs_fts,   *)
(* the three triggers, UpsertPDFData, GetStoredHash, RebuildFTS), the scan *)
(* command (runScanCommand, crawlPDFs, checkHashes, processPDFs) and the   *)
(* extractor (HashFile, ExtractPagesText, CleanText).                      *)
(*                                                                         *)
(* A text is a sequence of tokens; the empty string is the empty sequence. *)
(* A hash is a sequence of digest symbols; Go's "" is the empty sequence.  *)
(* The column last_scanned (CURRENT_TIMESTAMP) is not modelled.            *)
(***************************************************************************)
EXTENDS Bags, FiniteSets, Integers, Sequences, TLC

\* ---------------------------------------------------------------- bounds
\* Number of scan runs in one behaviour.
MaxScans == 2
\* Number of filesystem edits in one behaviour.
MaxFsChanges == 1
\* Number of direct calls of the store API in one behaviour of SpecStore.
MaxCalls == 2
\* Most copies of one row in the index a rebuild starts from.
MaxCopies == 2
\* Number of edits of the live loop's input field in one behaviour.
MaxKeys == 3

\* ------------------------------------------------------------- filesystem
Roots == {".", "sub"}
PdfFiles == {"a.pdf", "sub/B.PDF"}
Files == PdfFiles \cup {"notes.txt"}
\* The distinct file contents the filesystem can hold.
Bytes == {1, 2, 3}
Absent == 0

\* filepath.WalkDir visits a root's entries in lexical order and hands the
\* callback the root-joined path, so "sub/B.PDF" is the same string whether
\* it is reached from "." or from "sub".
WalkOrder(folder) ==
    IF folder = "." THEN <<".", "a.pdf", "notes.txt", "sub", "sub/B.PDF">>
    ELSE <<"sub", "sub/B.PDF">>
Dirs == {".", "sub"}
\* The directories of the walk from folder that lie on the way to path.
Ancestors(folder, path) ==
    CASE path = "sub/B.PDF" -> IF folder = "." THEN {".", "sub"} ELSE {"sub"}
      [] path = "sub" -> IF folder = "." THEN {".", "sub"} ELSE {"sub"}
      [] OTHER -> {"."}

\* strings.ToLower(path) followed by strings.HasSuffix(_, ".pdf")
Suffix4(path) ==
    CASE path = "a.pdf" -> ".pdf"
      [] path = "sub/B.PDF" -> ".PDF"
      [] OTHER -> ".txt"
ToLower(s) ==
    CASE s = ".PDF" -> ".pdf"
      [] OTHER -> s
IsPdfName(path) == ToLower(Suffix4(path)) = ".pdf"

\* ---------------------------------------------------------------- extractor
EmptyHash == <<>>
\* HashFile: hex digest of the file's bytes, never the empty string.
HashFile(b) == <<b>>
Hashes == {HashFile(b) : b \in Bytes}

Blank == " "
EmptyText == <<>>
\* The raw text MuPDF yields for each physical page of a file.
RawPages(b) ==
    CASE b = 1 -> << <<"foo", Blank, "bar">>, <<"baz", "qux", Blank>> >>
      [] b = 2 -> << <<"foo", "bar", "baz">> >>
      [] b = 3 -> << >>
      [] OTHER -> << <<Blank, "qux">>, <<"foo", "bar">> >>

\* CleanText: collapse whitespace runs and trim.
RECURSIVE CleanText(_)
CleanText(text) ==
    IF text = <<>> THEN <<>>
    ELSE IF Head(text) = Blank THEN CleanText(Tail(text))
    ELSE <<Head(text)>> \o CleanText(Tail(text))

\* The loop of ExtractPagesText over the pages of an opened document, from
\* page pageIndex on: a page whose extractPageText fails (pageIndex \in failed)
\* is left out altogether.
RECURSIVE pagesText_SkipFailed(_, _, _)
pagesText_SkipFailed(doc, failed, pageIndex) ==
    IF pageIndex > Len(doc) THEN <<>>
    ELSE IF pageIndex \in failed
         THEN pagesText_SkipFailed(doc, failed, pageIndex + 1)
         ELSE <<CleanText(doc[pageIndex])>>
              \o pagesText_SkipFailed(doc, failed, pageIndex + 1)

\* The loop of ExtractPagesText over the pages of an opened document, from
\* page pageIndex on: a page whose extractPageText fails (pageIndex \in failed)
\* appends "" and the loop continues; any other page appends its cleaned text.
RECURSIVE pagesText(_, _, _)
pagesText(doc, failed, pageIndex) ==
    IF pageIndex > Len(doc) THEN <<>>
    ELSE IF pageIndex \in failed
         THEN <<EmptyText>> \o pagesText(doc, failed, pageIndex + 1)
         ELSE <<CleanText(doc[pageIndex])>>
              \o pagesText(doc, failed, pageIndex + 1)

\* ExtractPagesText for a file with bytes b that opens.
ExtractPagesText(b, failed) == pagesText(RawPages(b), failed, 1)

\* The pages of a file on which doc.Text can fail.
Fragile(b) == IF b = 1 THEN {1} ELSE {}
\* The sets of pages whose extraction fails in one run of ExtractPagesText.
FailedSets(b) == SUBSET Fragile(b)

\* Every page sequence an extraction can hand to the store.
PageSeqs ==
    UNION {{ExtractPagesText(b, failed) : failed \in FailedSets(b)} : b \in Bytes}

\* ------------------------------------------------------------------ state
VARIABLES
    fs,             \* the files on disk: PdfFiles -> Bytes or Absent
    pdfs,           \* committed rows of table pdfs
    fts,            \* committed rows of table pdfs_fts (a bag: no key constraint)
    tx,             \* the open write transaction and its private image, or NoTx
    call,           \* the most recent write call on the store and its outcome
    readerView,     \* what a reader on another connection last read
    pc,             \* position of the scan command
    folders, forceRescan, folderIdx,
    allPdfFiles, hashIdx,
    filesToProcess, procIdx, processedCount,
    scanErr,        \* runScanCommand's return value
    warned,         \* the per-document warnings written to stderr by this scan
    scans, fsChanges, calls,   \* counters capping the behaviour
    prevFolders,    \* the folders of the latest scan, if it was not forced, wrote
                    \* no warning and no file changed since; <<>> otherwise
    repeat,         \* this scan is not forced and runs over prevFolders
    queryOut,       \* the latest Search or LiveSearch call and what it returned
    textInput,      \* live loop: the value of the input field
    pending,        \* live loop: the query commands started and not yet delivered
    shown,          \* live loop: the result list and error on display
    searching,      \* live loop: the spinner flag
    keys,           \* live loop: number of edits of the input field so far
    cwd,            \* the working directory a command is started in
    dbFiles,        \* the directories that hold a file named fts.db
    cmdOut,         \* the latest command's PersistentPreRunE outcome
    extractOut,     \* the latest ExtractPagesText call and what it returned
    groupOut        \* the latest grouping of a result list and its groups

dbVars == <<pdfs, fts, tx, call, readerView>>
scanVars == <<pc, folders, forceRescan, folderIdx, allPdfFiles, hashIdx,
              filesToProcess, procIdx, processedCount, scanErr, warned,
              scans, prevFolders, repeat>>
liveVars == <<textInput, pending, shown, searching, keys>>
configVars == <<cwd, dbFiles, cmdOut>>
pureVars == <<extractOut, groupOut>>
frontVars == <<queryOut, textInput, pending, shown, searching, keys,
               cwd, dbFiles, cmdOut, extractOut, groupOut>>
vars == <<fs, pdfs, fts, tx, call, readerView, pc, folders, forceRescan,
          folderIdx, allPdfFiles, hashIdx, filesToProcess, procIdx,
          processedCount, scanErr, warned, scans, fsChanges, calls,
          prevFolders, repeat, queryOut, textInput, pending, shown,
          searching, keys, cwd, dbFiles, cmdOut, extractOut, groupOut>>

NoTx == [st |-> "none"]
NoCall == [op |-> "none"]
NoView == [path |-> "none"]
NoQuery == [op |-> "none"]
NoCmd == [cmd |-> "none"]
NoExtract == [op |-> "none"]
NoGroup == [op |-> "none"]
\* The live loop's empty result list with no error (initialLiveSearchModel).
\* from: the edit whose query the display answers (0: none); newest: the
\* latest edit a delivered result has answered so far.
NoItems == [items |-> <<>>, err |-> "nil", from |-> 0, newest |-> 0]

\* ------------------------------------------------------------------ schema
\* A row of pdfs; PRIMARY KEY (path, page_num).
PageRow(path, n, hash, content) ==
    [path |-> path, page_num |-> n, hash |-> hash, content |-> content]
\* A row of pdfs_fts.
IndexRow(path, n, content) ==
    [path |-> path, page_num |-> n, content_idx |-> content]

\* Trigger pdfs_after_insert.
pdfs_after_insert(index, new) ==
    index (+) SetToBag({IndexRow(new.path, new.page_num, new.content)})

\* The delete trigger missing from the schema.
pdfs_after_delete_Missing(index, old) == index

\* Trigger pdfs_after_delete: every index row with the old key goes.
pdfs_after_delete(index, old) ==
    LET keep == {e \in DOMAIN index :
                    ~(e.path = old.path /\ e.page_num = old.page_num)}
    IN  [e \in keep |-> index[e]]

\* The update trigger missing from the schema.
pdfs_after_update_content_Missing(index, old, new) == index

\* Trigger pdfs_after_update_content: when the content changed, every index
\* row with the new row's key takes the new content.
pdfs_after_update_content(index, old, new) ==
    IF new.content = old.content THEN index
    ELSE LET hit == {e \in DOMAIN index :
                        e.path = new.path /\ e.page_num = new.page_num}
             keep == [e \in DOMAIN index \ hit |-> index[e]]
             moved == BagCardinality([e \in hit |-> index[e]])
         IN  IF moved = 0 THEN keep
             ELSE keep (+) [e \in {IndexRow(new.path, new.page_num, new.content)}
                               |-> moved]

RECURSIVE DeleteAll(_, _)
\* The delete trigger fired once for each deleted row.
DeleteAll(index, rows) ==
    IF rows = {} THEN index
    ELSE LET r == CHOOSE x \in rows : TRUE
         IN  DeleteAll(pdfs_after_delete(index, r), rows \ {r})

\* A delete without its WHERE clause.
ExecDelete_AllPaths(db, path) ==
    [pdfs |-> {}, fts |-> DeleteAll(db.fts, db.pdfs)]

\* A delete that removes the first page of the path only.
ExecDelete_FirstPageOnly(db, path) ==
    LET gone == {r \in db.pdfs : r.path = path /\ r.page_num = 1}
    IN  [pdfs |-> db.pdfs \ gone, fts |-> DeleteAll(db.fts, gone)]

\* DELETE FROM pdfs WHERE path = ?
ExecDelete(db, path) ==
    LET gone == {r \in db.pdfs : r.path = path}
    IN  [pdfs |-> db.pdfs \ gone, fts |-> DeleteAll(db.fts, gone)]

\* The primary key refuses a second row with the same (path, page_num).
KeyTaken(db, path, n) ==
    \E r \in db.pdfs : r.path = path /\ r.page_num = n

\* INSERT INTO pdfs (path, page_num, hash, content, last_scanned) VALUES ...
ExecInsert(db, path, n, hash, content) ==
    LET new == PageRow(path, n, hash, content)
    IN  [pdfs |-> db.pdfs \cup {new}, fts |-> pdfs_after_insert(db.fts, new)]

\* GetStoredHash: SELECT hash FROM pdfs WHERE path = ? LIMIT 1 may return the
\* hash of any row of the path; no row gives "".
GetStoredHash(rows, path) ==
    LET found == {r.hash : r \in {x \in rows : x.path = path}}
    IN  IF found = {} THEN {EmptyHash} ELSE found

RECURSIVE Repopulate_NoContent(_, _)
\* A repopulation that leaves the indexed column empty.
Repopulate_NoContent(index, rows) ==
    IF rows = {} THEN index
    ELSE LET r == CHOOSE x \in rows : TRUE
         IN  Repopulate_NoContent(index (+) SetToBag({IndexRow(r.path, r.page_num, EmptyText)}),
                                  rows \ {r})

RECURSIVE Repopulate(_, _)
\* INSERT INTO pdfs_fts (path, page_num, content_idx) VALUES (?, ?, ?), once
\* for each row read from pdfs.
Repopulate(index, rows) ==
    IF rows = {} THEN index
    ELSE LET r == CHOOSE x \in rows : TRUE
         IN  Repopulate(index (+) SetToBag({IndexRow(r.path, r.page_num, r.content)}),
                        rows \ {r})

\* A rebuild that repopulates without dropping the old index.
RebuildFTS_NoDrop(db) ==
    [pdfs |-> db.pdfs, fts |-> Repopulate(db.fts, db.pdfs)]

\* RebuildFTS: drop the triggers and the index, recreate them empty, then
\* repopulate from pdfs.
RebuildFTS(db) ==
    [pdfs |-> db.pdfs, fts |-> Repopulate(EmptyBag, db.pdfs)]

\* The rows a reader on its own connection sees for a path: committed ones.
ReadPages(path) == {r \in pdfs : r.path = path}

\* ------------------------------------------------------- UpsertPDFData
\* The rows UpsertPDFData(path, hash, pages) is to leave for path.
NewRows(path, hash, pages) ==
    {PageRow(path, k, hash, pages[k]) : k \in 1..Len(pages)}

\* A processPDFs that returns the store's error instead of continuing.
AfterStore_Abort(ok) ==
    IF pc = "store"
    THEN /\ processedCount' = IF ok THEN processedCount + 1 ELSE processedCount
         /\ warned' = IF ok THEN warned ELSE warned \cup {<<"process", procIdx>>}
         /\ procIdx' = procIdx + 1
         /\ pc' = IF procIdx = Len(filesToProcess) \/ ~ok THEN "done" ELSE "process"
         /\ scanErr' = IF ~ok THEN "error"
                       ELSE IF procIdx = Len(filesToProcess) THEN "nil" ELSE scanErr
         /\ UNCHANGED <<folders, forceRescan, folderIdx, allPdfFiles, hashIdx,
                        filesToProcess, scans, prevFolders, repeat>>
    ELSE UNCHANGED scanVars

\* What the scan does when the UpsertPDFData call of processPDFs returns.
AfterStore(ok) ==
    IF pc = "store"
    THEN /\ processedCount' = IF ok THEN processedCount + 1 ELSE processedCount
         /\ warned' = IF ok THEN warned ELSE warned \cup {<<"process", procIdx>>}
         /\ procIdx' = procIdx + 1
         /\ pc' = IF procIdx = Len(filesToProcess) THEN "done" ELSE "process"
         /\ scanErr' = IF procIdx = Len(filesToProcess) THEN "nil" ELSE scanErr
         /\ UNCHANGED <<folders, forceRescan, folderIdx, allPdfFiles, hashIdx,
                        filesToProcess, scans, prevFolders, repeat>>
    ELSE UNCHANGED scanVars

\* An error return that leaves the statements executed so far in the store.
Rollback_KeepsWrites ==
    /\ tx' = NoTx
    /\ call' = [call EXCEPT !.result = "err", !.at = tx.st]
    /\ pdfs' = tx.pdfs
    /\ fts' = tx.fts
    /\ UNCHANGED readerView
    /\ AfterStore(FALSE)

\* An error return before Commit: the deferred tx.Rollback() drops the
\* transaction's image.
Rollback ==
    /\ tx' = NoTx
    /\ call' = [call EXCEPT !.result = "err", !.at = tx.st]
    /\ UNCHANGED <<pdfs, fts, readerView>>
    /\ AfterStore(FALSE)

\* db.Begin() for UpsertPDFData(path, hash, pages); began says whether it
\* succeeded.
Begin(path, hash, pages, began) ==
    /\ tx' = IF began
             THEN [st |-> "delete", path |-> path, hash |-> hash, pages |-> pages,
                   k |-> 1, pdfs |-> pdfs, fts |-> fts]
             ELSE NoTx
    /\ call' = [op |-> "upsert", path |-> path, hash |-> hash, pages |-> pages,
                before |-> [pdfs |-> pdfs, fts |-> fts],
                result |-> IF began THEN "running" ELSE "err", at |-> "begin"]
    /\ readerView' = NoView
    /\ UNCHANGED <<pdfs, fts>>

\* The delete issued on the database handle instead of the transaction.
UpsertDelete_OutsideTx ==
    /\ tx.st = "delete"
    /\ \/ Rollback
       \/ /\ LET db == ExecDelete([pdfs |-> pdfs, fts |-> fts], tx.path)
             IN  /\ pdfs' = db.pdfs
                 /\ fts' = db.fts
                 /\ tx' = [tx EXCEPT !.pdfs = db.pdfs, !.fts = db.fts,
                                     !.st = IF Len(tx.pages) = 0 THEN "commit" ELSE "insert"]
          /\ UNCHANGED <<call, readerView>>
          /\ UNCHANGED scanVars
    /\ UNCHANGED <<fs, fsChanges, calls>>
    /\ UNCHANGED frontVars

\* tx.Exec("DELETE FROM pdfs WHERE path = ?") and tx.Prepare(INSERT ...).
UpsertDelete ==
    /\ tx.st = "delete"
    /\ \/ Rollback
       \/ /\ LET db == ExecDelete([pdfs |-> tx.pdfs, fts |-> tx.fts], tx.path)
             IN  tx' = [tx EXCEPT !.pdfs = db.pdfs, !.fts = db.fts,
                                  !.st = IF Len(tx.pages) = 0 THEN "commit" ELSE "insert"]
          /\ UNCHANGED <<pdfs, fts, call, readerView>>
          /\ UNCHANGED scanVars
    /\ UNCHANGED <<fs, fsChanges, calls>>
    /\ UNCHANGED frontVars

\* The insert statement prepared on the database handle instead of the
\* transaction: each page is committed as it is inserted.
UpsertInsert_OutsideTx ==
    /\ tx.st = "insert"
    /\ \/ Rollback
       \/ /\ ~KeyTaken([pdfs |-> pdfs, fts |-> fts], tx.path, tx.k)
          /\ LET db == ExecInsert([pdfs |-> pdfs, fts |-> fts],
                                  tx.path, tx.k, tx.hash, tx.pages[tx.k])
                 im == ExecInsert([pdfs |-> tx.pdfs, fts |-> tx.fts],
                                  tx.path, tx.k, tx.hash, tx.pages[tx.k])
             IN  /\ pdfs' = db.pdfs
                 /\ fts' = db.fts
                 /\ tx' = [tx EXCEPT !.pdfs = im.pdfs, !.fts = im.fts,
                                     !.k = tx.k + 1,
                                     !.st = IF tx.k = Len(tx.pages) THEN "commit" ELSE "insert"]
          /\ UNCHANGED <<call, readerView>>
          /\ UNCHANGED scanVars
    /\ UNCHANGED <<fs, fsChanges, calls>>
    /\ UNCHANGED frontVars

\* An insert loop that leaves out the pages with empty text.
UpsertInsert_SkipEmpty ==
    /\ tx.st = "insert"
    /\ \/ Rollback
       \/ /\ ~KeyTaken([pdfs |-> tx.pdfs, fts |-> tx.fts], tx.path, tx.k)
          /\ LET db == IF tx.pages[tx.k] = EmptyText
                       THEN [pdfs |-> tx.pdfs, fts |-> tx.fts]
                       ELSE ExecInsert([pdfs |-> tx.pdfs, fts |-> tx.fts],
                                       tx.path, tx.k, tx.hash, tx.pages[tx.k])
             IN  tx' = [tx EXCEPT !.pdfs = db.pdfs, !.fts = db.fts,
                                  !.k = tx.k + 1,
                                  !.st = IF tx.k = Len(tx.pages) THEN "commit" ELSE "insert"]
          /\ UNCHANGED <<pdfs, fts, call, readerView>>
          /\ UNCHANGED scanVars
    /\ UNCHANGED <<fs, fsChanges, calls>>
    /\ UNCHANGED frontVars

\* stmt.Exec(filePath, pageNum+1, hash, content) for the next page.
UpsertInsert ==
    /\ tx.st = "insert"
    /\ \/ Rollback
       \/ /\ ~KeyTaken([pdfs |-> tx.pdfs, fts |-> tx.fts], tx.path, tx.k)
          /\ LET db == ExecInsert([pdfs |-> tx.pdfs, fts |-> tx.fts],
                                  tx.path, tx.k, tx.hash, tx.pages[tx.k])
             IN  tx' = [tx EXCEPT !.pdfs = db.pdfs, !.fts = db.fts,
                                  !.k = tx.k + 1,
                                  !.st = IF tx.k = Len(tx.pages) THEN "commit" ELSE "insert"]
          /\ UNCHANGED <<pdfs, fts, call, readerView>>
          /\ UNCHANGED scanVars
    /\ UNCHANGED <<fs, fsChanges, calls>>
    /\ UNCHANGED frontVars

\* tx.Commit(): the transaction's image becomes the committed one, or the
\* commit fails and the image is dropped.
UpsertCommit ==
    /\ tx.st = "commit"
    /\ \/ Rollback
       \/ /\ pdfs' = tx.pdfs
          /\ fts' = tx.fts
          /\ tx' = NoTx
          /\ call' = [call EXCEPT !.result = "ok", !.at = "commit"]
          /\ UNCHANGED readerView
          /\ AfterStore(TRUE)
    /\ UNCHANGED <<fs, fsChanges, calls>>
    /\ UNCHANGED frontVars

\* A direct call of UpsertPDFData with arbitrary arguments.
ApiUpsert ==
    /\ pc = "idle"
    /\ tx = NoTx
    /\ calls < MaxCalls
    /\ \E path \in PdfFiles, hash \in Hashes, pages \in PageSeqs, began \in BOOLEAN :
          Begin(path, hash, pages, began)
    /\ calls' = calls + 1
    /\ UNCHANGED scanVars
    /\ UNCHANGED <<fs, fsChanges>>
    /\ UNCHANGED frontVars

\* The rebuild-fts command: RebuildFTS in one transaction; any error before
\* the commit rolls everything back.
Rebuild ==
    /\ tx = NoTx
    /\ pc = "idle"
    /\ \E ok \in BOOLEAN :
          LET db == RebuildFTS([pdfs |-> pdfs, fts |-> fts])
          IN  /\ fts' = IF ok THEN db.fts ELSE fts
              /\ call' = [op |-> "rebuild", before |-> [pdfs |-> pdfs, fts |-> fts],
                          result |-> IF ok THEN "ok" ELSE "err", at |-> "commit"]
    /\ readerView' = NoView
    /\ UNCHANGED <<pdfs, tx>>
    /\ UNCHANGED scanVars
    /\ UNCHANGED <<fs, fsChanges, calls>>
    /\ UNCHANGED frontVars

\* A reader on a separate connection reads the pages of the path whose
\* replace is under way or has just ended.
ReaderRead ==
    /\ call.op = "upsert"
    /\ readerView' = [path |-> call.path, rows |-> ReadPages(call.path)]
    /\ UNCHANGED <<pdfs, fts, tx, call>>
    /\ UNCHANGED scanVars
    /\ UNCHANGED <<fs, fsChanges, calls>>
    /\ UNCHANGED frontVars

\* ----------------------------------------------------------- query engine
\* The paths in the order of SQLite's BINARY collation.
PathOrder == <<"a.pdf", "sub/B.PDF">>
PathRank(path) == CHOOSE i \in 1..Len(PathOrder) : PathOrder[i] = path
\* ORDER BY p.path, p.page_num
KeyLeq(r, o) ==
    \/ PathRank(r.path) < PathRank(o.path)
    \/ (r.path = o.path /\ r.page_num <= o.page_num)

\* The query strings and the values of --limit a caller passes.
Queries == {"bar", "BAR", "foo bar", "bar OR qux", "zzz", "", "\""}
Limits == {-1, 0, 1, 2, 5}

\* FTS5 refuses an empty expression and an unterminated string.
SyntaxOk(q) == q \notin {"", "\""}
\* tokenize = 'unicode61' folds case.
Fold(t) == IF t = "BAR" THEN "bar" ELSE t
\* The parse of an FTS5 query, as the alternatives of its OR, each the set of
\* terms it requires; terms side by side are an implicit AND.
QueryTerms(q) ==
    CASE q = "foo bar" -> {{"foo", "bar"}}
      [] q = "bar OR qux" -> {{"bar"}, {"qux"}}
      [] q \in {"", "\""} -> {}
      [] OTHER -> {{Fold(q)}}
IsHit(token, q) ==
    \E alt \in QueryTerms(q) : Fold(token) \in alt
\* pdfs_fts MATCH ?
Match(content, q) ==
    \E alt \in QueryTerms(q) :
        \A t \in alt : \E k \in DOMAIN content : Fold(content[k]) = t
\* snippet(pdfs_fts, 2, open, close, ...): the text with each hit between
\* the markers.
snippet(content, q, open, close) ==
    [k \in DOMAIN content |->
        IF IsHit(content[k], q) THEN <<open, content[k], close>>
        ELSE <<content[k]>>]

\* A join without the MATCH condition.
Joined_NoMatch(db, q) ==
    LET hit == {e \in DOMAIN db.fts :
                   \E r \in db.pdfs : r.path = e.path /\ r.page_num = e.page_num}
    IN  [e \in hit |-> db.fts[e]]

\* FROM pdfs_fts JOIN pdfs AS p ON pdfs_fts.path = p.path AND
\* pdfs_fts.page_num = p.page_num WHERE pdfs_fts MATCH ?: the index rows (a
\* bag) that match and have a page with their key.
Joined(db, q) ==
    LET hit == {e \in DOMAIN db.fts :
                   /\ Match(e.content_idx, q)
                   /\ \E r \in db.pdfs : r.path = e.path /\ r.page_num = e.page_num}
    IN  [e \in hit |-> db.fts[e]]

RECURSIVE ByRank(_)
\* The sequences ORDER BY rank can return: the engine's relevance order, any
\* order for the caller.
ByRank(B) ==
    IF BagToSet(B) = {} THEN {<<>>}
    ELSE UNION {{<<e>> \o t : t \in ByRank(B (-) SetToBag({e}))} : e \in BagToSet(B)}

\* The batch query ordered by rank as the live query is.
Orderings_ByRank(B) == ByRank(B)

RECURSIVE Orderings(_)
\* The sequences ORDER BY p.path, p.page_num can return: rows with equal
\* keys come in any order.
Orderings(B) ==
    IF BagToSet(B) = {} THEN {<<>>}
    ELSE LET first == {e \in BagToSet(B) : \A o \in BagToSet(B) : KeyLeq(e, o)}
         IN  UNION {{<<e>> \o t : t \in Orderings(B (-) SetToBag({e}))} : e \in first}

\* A LIMIT that is not applied.
Truncate_NoLimit(rows, limit) == rows

\* LIMIT ?: a negative limit is no limit.
Truncate(rows, limit) ==
    IF limit < 0 \/ limit >= Len(rows) THEN rows ELSE SubSeq(rows, 1, limit)

ResultRows(es, q, open, close) ==
    [i \in DOMAIN es |->
        [path |-> es[i].path, page_num |-> es[i].page_num,
         snippet |-> snippet(es[i].content_idx, q, open, close)]]

\* The error db.Query returns: the match expression is parsed when the
\* statement first steps into the index, which LIMIT 0 may never do.
QueryErrs(q, limit) ==
    IF SyntaxOk(q) THEN {"nil"}
    ELSE IF limit = 0 THEN {"nil", "syntax"} ELSE {"syntax"}

\* DB.Search: what the call can return on store db.
SearchOutcomes(db, q, limit) ==
    IF ~SyntaxOk(q)
    THEN {[rows |-> <<>>, err |-> e] : e \in QueryErrs(q, limit)}
    ELSE {[rows |-> ResultRows(Truncate(es, limit), q, "[HL]", "[/HL]"), err |-> "nil"] :
             es \in Orderings(Joined(db, q))}

\* DB.LiveSearch for a non-empty query.
LiveSearchOutcomes(db, q, limit) ==
    IF ~SyntaxOk(q)
    THEN {[rows |-> <<>>, err |-> e] : e \in QueryErrs(q, limit)}
    ELSE {[rows |-> ResultRows(Truncate(es, limit), q, ">>>", "<<<"), err |-> "nil"] :
             es \in ByRank(Joined(db, q))}

\* A search that clears the index of the rows it has returned.
Search_Consuming ==
    /\ \E q \in Queries, limit \in Limits :
          \E out \in SearchOutcomes([pdfs |-> pdfs, fts |-> fts], q, limit) :
             /\ queryOut' = [op |-> "search", q |-> q, limit |-> limit,
                             rows |-> out.rows, err |-> out.err, matched |-> TRUE,
                             before |-> [pdfs |-> pdfs, fts |-> fts]]
             /\ fts' = [e \in {x \in DOMAIN fts : ~Match(x.content_idx, q)} |-> fts[e]]
    /\ UNCHANGED <<pdfs, tx, call, readerView>>
    /\ UNCHANGED scanVars
    /\ UNCHANGED <<fs, fsChanges, calls>>
    /\ UNCHANGED liveVars
    /\ UNCHANGED configVars
    /\ UNCHANGED pureVars

\* The search command's query: DB.Search(queryTerm, limit).
Search ==
    /\ \E q \in Queries, limit \in Limits :
          \E out \in SearchOutcomes([pdfs |-> pdfs, fts |-> fts], q, limit) :
             queryOut' = [op |-> "search", q |-> q, limit |-> limit,
                          rows |-> out.rows, err |-> out.err, matched |-> TRUE,
                          before |-> [pdfs |-> pdfs, fts |-> fts]]
    /\ UNCHANGED dbVars
    /\ UNCHANGED scanVars
    /\ UNCHANGED <<fs, fsChanges, calls>>
    /\ UNCHANGED liveVars
    /\ UNCHANGED configVars
    /\ UNCHANGED pureVars

\* DB.LiveSearch(queryTerm, limit): no rows and no error for "", without a
\* query; the match query ordered by rank otherwise.
LiveSearch ==
    /\ \E q \in Queries, limit \in Limits :
          IF q = ""
          THEN queryOut' = [op |-> "live", q |-> q, limit |-> limit,
                            rows |-> <<>>, err |-> "nil", matched |-> FALSE,
                            before |-> [pdfs |-> pdfs, fts |-> fts]]
          ELSE \E out \in LiveSearchOutcomes([pdfs |-> pdfs, fts |-> fts], q, limit) :
                  queryOut' = [op |-> "live", q |-> q, limit |-> limit,
                               rows |-> out.rows, err |-> out.err, matched |-> TRUE,
                               before |-> [pdfs |-> pdfs, fts |-> fts]]
    /\ UNCHANGED dbVars
    /\ UNCHANGED scanVars
    /\ UNCHANGED <<fs, fsChanges, calls>>
    /\ UNCHANGED liveVars
    /\ UNCHANGED configVars
    /\ UNCHANGED pureVars

\* -------------------------------------------------------------- live loop
\* The limit performSearchCmd passes.
LiveLimit == 5

\* The values one message can leave in the input field: a typed character, a
\* pasted word, backspace, or the line cleared.
Edits(value) ==
    CASE value = "" -> {"b", " ", "\"", "bar"}
      [] value = "b" -> {"ba", ""}
      [] value = "ba" -> {"bar", "b", ""}
      [] value = "bar" -> {"ba", ""}
      [] OTHER -> {""}
\* strings.TrimSpace
TrimSpace(value) == IF value = " " THEN "" ELSE value

\* The snippet with the >>> and <<< markers taken out.
StripMarkers(snip) ==
    [k \in DOMAIN snip |-> IF Len(snip[k]) = 3 THEN snip[k][2] ELSE snip[k][1]]

\* queryDBForLiveSearch: the list items for a query, or the error.
queryDBForLiveSearch(db, queryTerm, limit) ==
    IF queryTerm = "" THEN {[items |-> <<>>, err |-> "nil"]}
    ELSE {IF out.err # "nil"
          THEN [items |-> <<>>, err |-> out.err]
          ELSE [items |-> [i \in DOMAIN out.rows |->
                              [Path |-> out.rows[i].path,
                               PageNum |-> out.rows[i].page_num,
                               Snippet |-> StripMarkers(out.rows[i].snippet),
                               Query |-> queryTerm]],
                err |-> "nil"] :
             out \in LiveSearchOutcomes(db, queryTerm, limit)}

\* Update for a key message that changes the input: a blank input clears the
\* list and the error, any other starts a query command.
KeyMsg ==
    /\ keys < MaxKeys
    /\ \E newValue \in Edits(textInput) :
          /\ textInput' = newValue
          /\ IF TrimSpace(newValue) = ""
             THEN /\ shown' = [shown EXCEPT !.items = <<>>, !.err = "nil", !.from = 0]
                  /\ UNCHANGED <<pending, searching>>
             ELSE /\ searching' = TRUE
                  /\ pending' = pending \cup {[query |-> newValue, key |-> keys + 1]}
                  /\ UNCHANGED shown
    /\ keys' = keys + 1
    /\ UNCHANGED <<queryOut, cwd, dbFiles, cmdOut>>
    /\ UNCHANGED pureVars
    /\ UNCHANGED dbVars
    /\ UNCHANGED scanVars
    /\ UNCHANGED <<fs, fsChanges, calls>>

\* An Update that drops the result of a query that is not the input's.
Deliver_DropStale ==
    /\ \E c \in pending :
          /\ pending' = pending \ {c}
          /\ \E out \in queryDBForLiveSearch([pdfs |-> pdfs, fts |-> fts], c.query, LiveLimit) :
                shown' = IF c.query = textInput
                         THEN [items |-> out.items, err |-> out.err, from |-> c.key,
                               newest |-> IF c.key > shown.newest THEN c.key ELSE shown.newest]
                         ELSE shown
    /\ searching' = FALSE
    /\ UNCHANGED <<textInput, keys>>
    /\ UNCHANGED <<queryOut, cwd, dbFiles, cmdOut>>
    /\ UNCHANGED pureVars
    /\ UNCHANGED dbVars
    /\ UNCHANGED scanVars
    /\ UNCHANGED <<fs, fsChanges, calls>>

\* A query command completes and Update handles its searchResultsMsg or
\* searchErrorMsg: the list and the error are replaced by the message's.
Deliver ==
    /\ \E c \in pending :
          /\ pending' = pending \ {c}
          /\ \E out \in queryDBForLiveSearch([pdfs |-> pdfs, fts |-> fts], c.query, LiveLimit) :
                shown' = [items |-> out.items, err |-> out.err, from |-> c.key,
                          newest |-> IF c.key > shown.newest THEN c.key ELSE shown.newest]
    /\ searching' = FALSE
    /\ UNCHANGED <<textInput, keys>>
    /\ UNCHANGED <<queryOut, cwd, dbFiles, cmdOut>>
    /\ UNCHANGED pureVars
    /\ UNCHANGED dbVars
    /\ UNCHANGED scanVars
    /\ UNCHANGED <<fs, fsChanges, calls>>

\* --------------------------------------------------------- store location
\* A chain of directories, and filepath.Dir on it ("/" is its own parent).
DirTree == {"/", "/p", "/p/w"}
Dir(d) == IF d = "/p/w" THEN "/p" ELSE "/"
dbName == "fts.db"
\* c.DBPath when no path has been set.
NotFound == <<>>
Commands == {"scan", "search", "live", "rebuild-fts"}

\* A search that looks in the current directory only.
FindExistingDBPath_CwdOnly(currentDir, files) ==
    IF currentDir \in files THEN <<currentDir, dbName>> ELSE NotFound

RECURSIVE FindExistingDBPath(_, _)
\* FindExistingDBPath: from currentDir upwards, the first directory where
\* os.Stat of fts.db succeeds; an error when the root has been passed.
FindExistingDBPath(currentDir, files) ==
    IF currentDir \in files THEN <<currentDir, dbName>>
    ELSE IF Dir(currentDir) = currentDir THEN NotFound
    ELSE FindExistingDBPath(Dir(currentDir), files)

\* CreateDBPath: filepath.Abs("fts.db")
CreateDBPath(currentDir) == <<currentDir, dbName>>

FindOrCreateDBPath(currentDir, files) ==
    IF FindExistingDBPath(currentDir, files) # NotFound
    THEN FindExistingDBPath(currentDir, files)
    ELSE CreateDBPath(currentDir)

\* rootCmd.PersistentPreRunE for a command: the store path is resolved, then
\* database.New opens it, creating the file when it is not there; opened says
\* whether New succeeded, created whether a failed New left a new file.
PersistentPreRunE ==
    /\ \E cmdName \in Commands, opened \in BOOLEAN, created \in BOOLEAN :
          LET path == IF cmdName = "scan" THEN FindOrCreateDBPath(cwd, dbFiles)
                      ELSE FindExistingDBPath(cwd, dbFiles)
              files == IF path # NotFound /\ (opened \/ created)
                       THEN dbFiles \cup {path[1]} ELSE dbFiles
          IN  /\ dbFiles' = files
              /\ cmdOut' = [cmd |-> cmdName, cwd |-> cwd, DBPath |-> path,
                            err |-> IF path = NotFound THEN "no database found"
                                    ELSE IF opened THEN "nil"
                                    ELSE "initializing database",
                            before |-> dbFiles, after |-> files]
    /\ UNCHANGED cwd
    /\ UNCHANGED <<queryOut, textInput, pending, shown, searching, keys>>
    /\ UNCHANGED pureVars
    /\ UNCHANGED dbVars
    /\ UNCHANGED scanVars
    /\ UNCHANGED <<fs, fsChanges, calls>>

\* The user changes directory between two commands.
Chdir ==
    /\ \E d \in DirTree \ {cwd} : cwd' = d
    /\ UNCHANGED <<dbFiles, cmdOut>>
    /\ UNCHANGED <<queryOut, textInput, pending, shown, searching, keys>>
    /\ UNCHANGED pureVars
    /\ UNCHANGED dbVars
    /\ UNCHANGED scanVars
    /\ UNCHANGED <<fs, fsChanges, calls>>

\* ------------------------------------------------------------ scan command
\* The folder lists a scan can be given (default: the current directory).
FolderLists == {<<".">>, <<"sub">>, <<".", "sub">>, <<"sub", "sub">>}

\* The directories whose listing can fail during a walk.
Unreadable == SUBSET {"sub"}

\* A walk callback that returns the access error: WalkDir stops and the
\* files found so far are lost with the scan.
crawlPDFs_Abort(folder, unreadable) ==
    IF \E k \in DOMAIN WalkOrder(folder) : WalkOrder(folder)[k] \in unreadable
    THEN <<>>
    ELSE SelectSeq(WalkOrder(folder),
                   LAMBDA path :
                       /\ path \notin Dirs
                       /\ (path \in PdfFiles => fs[path] # Absent)
                       /\ IsPdfName(path))

\* crawlPDFs: the walk callback returns nil on an access error (a directory
\* in unreadable is handed to it with the error and its entries are not
\* visited), skips directories and keeps the names ending in .pdf.
crawlPDFs(folder, unreadable) ==
    SelectSeq(WalkOrder(folder),
              LAMBDA path :
                  /\ path \notin Dirs
                  /\ Ancestors(folder, path) \cap unreadable = {}
                  /\ (path \in PdfFiles => fs[path] # Absent)
                  /\ IsPdfName(path))

\* A comparison that forgets the --force flag.
needsUpdate_IgnoreForce(force, currentHash, storedHash) ==
    currentHash # storedHash

\* needsUpdate := forceRescan || currentHash != storedHash
needsUpdate(force, currentHash, storedHash) ==
    force \/ currentHash # storedHash

PDFFileInfo(path, currentHash, storedHash) ==
    [Path |-> path, CurrentHash |-> currentHash, StoredHash |-> storedHash,
     NeedsUpdate |-> TRUE]

\* The scan command starts: runScanCommand(folders, forceRescan).
ScanStart ==
    /\ pc = "idle"
    /\ tx = NoTx
    /\ scans < MaxScans
    /\ \E fl \in FolderLists, force \in BOOLEAN :
          /\ folders' = fl
          /\ forceRescan' = force
          /\ repeat' = (prevFolders = fl /\ ~force)
    /\ pc' = "crawl"
    /\ folderIdx' = 1
    /\ allPdfFiles' = <<>>
    /\ hashIdx' = 1
    /\ filesToProcess' = <<>>
    /\ procIdx' = 1
    /\ processedCount' = 0
    /\ scanErr' = "none"
    /\ warned' = {}
    /\ scans' = scans + 1
    /\ prevFolders' = <<>>
    /\ call' = NoCall
    /\ readerView' = NoView
    /\ UNCHANGED <<pdfs, fts, tx>>
    /\ UNCHANGED <<fs, fsChanges, calls>>
    /\ UNCHANGED frontVars

\* Phase 1, one folder: allPdfFiles = append(allPdfFiles, pdfFiles...); after
\* the last folder an empty list ends the scan.
Crawl ==
    /\ pc = "crawl"
    /\ \E unreadable \in Unreadable :
          LET found == allPdfFiles \o crawlPDFs(folders[folderIdx], unreadable)
              last == folderIdx = Len(folders)
          IN  /\ allPdfFiles' = found
              /\ folderIdx' = folderIdx + 1
              /\ pc' = IF ~last THEN "crawl"
                       ELSE IF Len(found) = 0 THEN "done" ELSE "hash"
              /\ scanErr' = IF last /\ Len(found) = 0 THEN "nil" ELSE scanErr
              /\ warned' = IF unreadable \cap Ancestors(folders[folderIdx], "sub/B.PDF") = {}
                            THEN warned
                            ELSE warned \cup {<<"crawl", folderIdx>>}
    /\ UNCHANGED <<folders, forceRescan, hashIdx, filesToProcess, procIdx,
                   processedCount, scans, prevFolders, repeat>>
    /\ UNCHANGED dbVars
    /\ UNCHANGED <<fs, fsChanges, calls>>
    /\ UNCHANGED frontVars

\* A scan that starts processing as soon as the worklist is not empty.
AfterCheck_Pipelined(worklist) ==
    LET last == hashIdx = Len(allPdfFiles)
    IN  /\ filesToProcess' = worklist
        /\ hashIdx' = hashIdx + 1
        /\ pc' = IF Len(worklist) > 0 THEN "process"
                 ELSE IF last THEN "done" ELSE "hash"
        /\ scanErr' = IF last /\ Len(worklist) = 0 THEN "nil" ELSE scanErr

\* What checkHashes does after one iteration of its loop, given the worklist
\* it leaves.
AfterCheck(worklist) ==
    LET last == hashIdx = Len(allPdfFiles)
    IN  /\ filesToProcess' = worklist
        /\ hashIdx' = hashIdx + 1
        /\ pc' = IF ~last THEN "hash"
                 ELSE IF Len(worklist) = 0 THEN "done" ELSE "process"
        /\ scanErr' = IF last /\ Len(worklist) = 0 THEN "nil" ELSE scanErr

\* Phase 2, one file: HashFile, GetStoredHash, then the comparison; a failure
\* of either call warns and continues with the next file.
CheckHash ==
    /\ pc = "hash"
    /\ LET path == allPdfFiles[hashIdx]
       IN  \/ /\ warned' = warned \cup {<<"hash", hashIdx>>}
              /\ AfterCheck(filesToProcess)
           \/ \E storedHash \in GetStoredHash(pdfs, path) :
                 LET currentHash == HashFile(fs[path])
                 IN  /\ warned' = warned
                     /\ AfterCheck(IF needsUpdate(forceRescan, currentHash, storedHash)
                                   THEN Append(filesToProcess,
                                               PDFFileInfo(path, currentHash, storedHash))
                                   ELSE filesToProcess)
    /\ UNCHANGED <<folders, forceRescan, folderIdx, allPdfFiles, procIdx,
                   processedCount, scans, prevFolders, repeat>>
    /\ UNCHANGED dbVars
    /\ UNCHANGED <<fs, fsChanges, calls>>
    /\ UNCHANGED frontVars

\* Phase 3, one file up to db.Begin: ExtractPagesText, then UpsertPDFData
\* opens its transaction; a failure warns and continues with the next file.
ProcessDoc ==
    /\ pc = "process"
    /\ tx = NoTx
    /\ LET fileInfo == filesToProcess[procIdx]
           last == procIdx = Len(filesToProcess)
           skip == /\ warned' = warned \cup {<<"process", procIdx>>}
                   /\ procIdx' = procIdx + 1
                   /\ pc' = IF last THEN "done" ELSE "process"
                   /\ scanErr' = IF last THEN "nil" ELSE scanErr
       IN  \/ /\ skip
              /\ UNCHANGED dbVars
           \/ \E failed \in FailedSets(fs[fileInfo.Path]) :
                 LET pageContents == ExtractPagesText(fs[fileInfo.Path], failed)
                 IN  \/ /\ Begin(fileInfo.Path, fileInfo.CurrentHash, pageContents, FALSE)
                        /\ skip
                     \/ /\ Begin(fileInfo.Path, fileInfo.CurrentHash, pageContents, TRUE)
                        /\ pc' = "store"
                        /\ UNCHANGED <<procIdx, scanErr, warned>>
    /\ UNCHANGED <<folders, forceRescan, folderIdx, allPdfFiles, hashIdx,
                   filesToProcess, processedCount, scans, prevFolders, repeat>>
    /\ UNCHANGED <<fs, fsChanges, calls>>
    /\ UNCHANGED frontVars

\* The closing line of a scan that went through phase 3:
\* "Scan completed. Processed %d PDFs, updated %d entries."
ScanReport == [processed |-> Len(allPdfFiles), updated |-> processedCount]

\* runScanCommand has returned and the process exits; the next command finds
\* the store and the filesystem.
ScanExit ==
    /\ pc = "done"
    /\ pc' = "idle"
    /\ folderIdx' = 1
    /\ allPdfFiles' = <<>>
    /\ hashIdx' = 1
    /\ filesToProcess' = <<>>
    /\ procIdx' = 1
    /\ processedCount' = 0
    /\ scanErr' = "none"
    /\ warned' = {}
    /\ repeat' = FALSE
    /\ prevFolders' = IF warned = {} /\ ~forceRescan THEN folders ELSE <<>>
    /\ folders' = <<>>
    /\ forceRescan' = FALSE
    /\ call' = NoCall
    /\ readerView' = NoView
    /\ UNCHANGED scans
    /\ UNCHANGED <<pdfs, fts, tx>>
    /\ UNCHANGED <<fs, fsChanges, calls>>
    /\ UNCHANGED frontVars

\* Between scans a file is written, replaced or removed.
FsChange ==
    /\ pc = "idle"
    /\ fsChanges < MaxFsChanges
    /\ \E path \in PdfFiles, b \in Bytes \cup {Absent} :
          /\ b # fs[path]
          /\ fs' = [fs EXCEPT ![path] = b]
    /\ fsChanges' = fsChanges + 1
    /\ prevFolders' = <<>>
    /\ UNCHANGED <<pc, folders, forceRescan, folderIdx, allPdfFiles, hashIdx,
                   filesToProcess, procIdx, processedCount, scanErr, warned,
                   scans, repeat>>
    /\ UNCHANGED dbVars
    /\ UNCHANGED calls
    /\ UNCHANGED frontVars

\* ----------------------------------------------- in-place content update
\* The contents an UPDATE statement can give a page.
PageTexts == {EmptyText, <<"foo", "bar">>, <<"qux">>, <<"baz", "qux">>}

\* UPDATE pdfs SET content = ? WHERE path = ? AND page_num = ?, run as one
\* statement on the store: the row changes and the AFTER UPDATE OF content
\* trigger runs inside the same statement.
ExecUpdateContent ==
    /\ pc = "idle"
    /\ tx = NoTx
    /\ calls < MaxCalls
    /\ \E old \in pdfs, content \in PageTexts :
          LET new == [old EXCEPT !.content = content]
          IN  /\ pdfs' = (pdfs \ {old}) \cup {new}
              /\ fts' = pdfs_after_update_content(fts, old, new)
              /\ call' = [op |-> "update", path |-> old.path, n |-> old.page_num,
                          content |-> content,
                          before |-> [pdfs |-> pdfs, fts |-> fts]]
    /\ calls' = calls + 1
    /\ readerView' = NoView
    /\ UNCHANGED tx
    /\ UNCHANGED scanVars
    /\ UNCHANGED <<fs, fsChanges>>
    /\ UNCHANGED frontVars

\* ------------------------------------------------- extraction, on its own
\* The longest document the extractor is run on below.
MaxPages == 3
\* The raw text of one physical page.
RawTexts == {<<"foo", Blank, "bar">>, <<Blank>>, <<"baz", "qux", Blank>>}
\* The documents: every sequence of at most MaxPages physical pages.
Docs == UNION {[1..n -> RawTexts] : n \in 0..MaxPages}

\* ExtractPagesText called on the document extractOut.doc: the file does not
\* open (nil, err), or it opens and the loop runs over all its pages,
\* extractPageText failing on the pages in failed.
ExtractPages ==
    /\ extractOut.op = "call"
    /\ LET doc == extractOut.doc
       IN  \/ extractOut' = [op |-> "extract", doc |-> doc, failed |-> {},
                             pages |-> <<>>, err |-> "open"]
           \/ \E failed \in SUBSET (1..Len(doc)) :
                 extractOut' = [op |-> "extract", doc |-> doc, failed |-> failed,
                                pages |-> pagesText(doc, failed, 1), err |-> "nil"]
    /\ UNCHANGED dbVars
    /\ UNCHANGED scanVars
    /\ UNCHANGED <<fs, fsChanges, calls>>
    /\ UNCHANGED <<queryOut, groupOut>>
    /\ UNCHANGED liveVars
    /\ UNCHANGED configVars

\* ------------------------------------------------------- grouping by path
\* The longest result list grouped below.
MaxRows == 4
\* The rows a search hands to the grouping loop: pages of the indexed files.
ResultKeys == {[Path |-> path, PageNum |-> n, Snippet |-> <<path, "bar">>] :
                  path \in PdfFiles, n \in 1..3}
\* Every list of at most MaxRows distinct rows, in any order.
ResultLists ==
    {rows \in UNION {[1..n -> ResultKeys] : n \in 0..MaxRows} :
        \A i, j \in DOMAIN rows : rows[i] = rows[j] => i = j}

\* The capacity append gives a full slice of FileResult (40-byte elements)
\* when it grows it: 1, 2, 4, 8.
growslice(oldCap) == IF oldCap = 0 THEN 1 ELSE 2 * oldCap

\* The grouping loop's memory before the first row: no backing array
\* (groupedResults is nil, cur = 0) and an empty resultMap.
NoGroups == [arrays |-> <<>>, cur |-> 0, resultMap |-> <<>>]

\* groupedResults = append(groupedResults, fileResult): in place while the
\* backing array has room, into a new array holding a copy of the elements
\* otherwise; then resultMap[path] = &groupedResults[len(groupedResults)-1],
\* a pointer into the array that is current now.
appendGroup(m, fileResult) ==
    LET len == IF m.cur = 0 THEN 0 ELSE Len(m.arrays[m.cur].elems)
        cap == IF m.cur = 0 THEN 0 ELSE m.arrays[m.cur].cap
        old == IF m.cur = 0 THEN <<>> ELSE m.arrays[m.cur].elems
        grown == IF len < cap
                 THEN [m EXCEPT !.arrays[m.cur].elems = Append(old, fileResult)]
                 ELSE [m EXCEPT !.arrays = Append(m.arrays,
                                                 [cap |-> growslice(cap),
                                                  elems |-> Append(old, fileResult)]),
                                !.cur = Len(m.arrays) + 1]
    IN  [grown EXCEPT !.resultMap =
            (fileResult.Path :> [arr |-> grown.cur, idx |-> len + 1]) @@ m.resultMap]

\* One iteration of the loop: a group for a path not in resultMap, then the
\* page appended to the FileResult that resultMap[result.Path] points to.
groupRow(m, result) ==
    LET known == IF result.Path \in DOMAIN m.resultMap THEN m
                 ELSE appendGroup(m, [Path |-> result.Path, Pages |-> <<>>])
        p == known.resultMap[result.Path]
    IN  [known EXCEPT !.arrays[p.arr].elems[p.idx].Pages =
            Append(@, [PageNum |-> result.PageNum, Snippet |-> result.Snippet])]

\* The loop over searchResults from row i on.
RECURSIVE groupLoop(_, _, _)
groupLoop(m, searchResults, i) ==
    IF i > Len(searchResults) THEN m
    ELSE groupLoop(groupRow(m, searchResults[i]), searchResults, i + 1)

\* groupedResults after the loop: the elements of the current backing array.
groupedResults(searchResults) ==
    LET m == groupLoop(NoGroups, searchResults, 1)
    IN  IF m.cur = 0 THEN <<>> ELSE m.arrays[m.cur].elems

\* The grouping loop run on the result list groupOut.rows.
GroupResults ==
    /\ groupOut.op = "call"
    /\ groupOut' = [op |-> "group", rows |-> groupOut.rows,
                    groups |-> groupedResults(groupOut.rows)]
    /\ UNCHANGED dbVars
    /\ UNCHANGED scanVars
    /\ UNCHANGED <<fs, fsChanges, calls>>
    /\ UNCHANGED <<queryOut, extractOut>>
    /\ UNCHANGED liveVars
    /\ UNCHANGED configVars

\* ---------------------------------------------------------- specifications
InitScan ==
    /\ pc = "idle"
    /\ folders = <<>>
    /\ forceRescan = FALSE
    /\ folderIdx = 1
    /\ allPdfFiles = <<>>
    /\ hashIdx = 1
    /\ filesToProcess = <<>>
    /\ procIdx = 1
    /\ processedCount = 0
    /\ scanErr = "none"
    /\ warned = {}
    /\ scans = 0
    /\ fsChanges = 0
    /\ calls = 0
    /\ prevFolders = <<>>
    /\ repeat = FALSE

\* No query made, the live loop as initialLiveSearchModel builds it, and a
\* command line started in a directory tree without a store file.
InitLive ==
    /\ textInput = ""
    /\ pending = {}
    /\ shown = NoItems
    /\ searching = FALSE
    /\ keys = 0
InitFront ==
    /\ queryOut = NoQuery
    /\ InitLive
    /\ cwd = "/"
    /\ dbFiles = {}
    /\ cmdOut = NoCmd
    /\ extractOut = NoExtract
    /\ groupOut = NoGroup

\* A fresh store (initSchema on a new fts.db) beside any filesystem.
Init ==
    /\ fs \in [PdfFiles -> Bytes \cup {Absent}]
    /\ pdfs = {}
    /\ fts = EmptyBag
    /\ tx = NoTx
    /\ call = NoCall
    /\ readerView = NoView
    /\ InitScan
    /\ InitFront

\* The commands of the program: scan, rebuild-fts, and a reader.
Next ==
    \/ ScanStart
    \/ Crawl
    \/ CheckHash
    \/ ProcessDoc
    \/ UpsertDelete
    \/ UpsertInsert
    \/ UpsertCommit
    \/ ScanExit
    \/ Rebuild
    \/ ReaderRead
    \/ FsChange

Spec == Init /\ [][Next]_vars

\* The store driven directly through its API.
NextStore ==
    \/ ApiUpsert
    \/ UpsertDelete
    \/ UpsertInsert
    \/ UpsertCommit
    \/ Rebuild
    \/ ReaderRead

\* A fresh store; the filesystem plays no part.
InitStore ==
    /\ fs = [path \in PdfFiles |-> Absent]
    /\ pdfs = {}
    /\ fts = EmptyBag
    /\ tx = NoTx
    /\ call = NoCall
    /\ readerView = NoView
    /\ InitScan
    /\ InitFront

SpecStore == InitStore /\ [][NextStore]_vars

\* Page tables UpsertPDFData leaves behind, and an index that has diverged
\* from them in any way: rows missing, stale, orphaned or duplicated.
PageTables ==
    LET a == NewRows("a.pdf", HashFile(1), ExtractPagesText(1, {}))
        b == NewRows("sub/B.PDF", HashFile(2), ExtractPagesText(2, {}))
    IN  {{}, a, a \cup b}
IndexUniverse ==
    {IndexRow("a.pdf", 1, <<"foo", "bar">>),
     IndexRow("a.pdf", 1, <<"qux">>),
     IndexRow("a.pdf", 3, <<"foo">>),
     IndexRow("sub/B.PDF", 1, <<"foo", "bar", "baz">>)}
InitDiverged ==
    /\ fs = [path \in PdfFiles |-> Absent]
    /\ pdfs \in PageTables
    /\ fts \in UNION {[S -> 1..MaxCopies] : S \in SUBSET IndexUniverse}
    /\ tx = NoTx
    /\ call = NoCall
    /\ readerView = NoView
    /\ InitScan
    /\ InitFront

\* The rebuild-fts command run on a store whose index may have diverged.
NextDiverged == Rebuild

SpecDiverged == InitDiverged /\ [][NextDiverged]_vars

\* The index the insert trigger has built for the rows of a page table.
IndexFor(rows) ==
    SetToBag({IndexRow(r.path, r.page_num, r.content) : r \in rows})

\* The query commands on a store left by scans, with rebuild-fts run in
\* between.
InitQuery ==
    /\ fs = [path \in PdfFiles |-> Absent]
    /\ pdfs \in PageTables
    /\ fts = IndexFor(pdfs)
    /\ tx = NoTx
    /\ call = NoCall
    /\ readerView = NoView
    /\ InitScan
    /\ InitFront

NextQuery ==
    \/ Search
    \/ LiveSearch
    \/ Rebuild

SpecQuery == InitQuery /\ [][NextQuery]_vars

\* The live command on a store left by scans.
NextLive ==
    \/ KeyMsg
    \/ Deliver

SpecLive == InitQuery /\ [][NextLive]_vars

\* Commands started anywhere in a directory tree that holds store files
\* anywhere.
InitConfig ==
    /\ fs = [path \in PdfFiles |-> Absent]
    /\ pdfs = {}
    /\ fts = EmptyBag
    /\ tx = NoTx
    /\ call = NoCall
    /\ readerView = NoView
    /\ InitScan
    /\ queryOut = NoQuery
    /\ InitLive
    /\ cwd \in DirTree
    /\ dbFiles \in SUBSET DirTree
    /\ cmdOut = NoCmd
    /\ extractOut = NoExtract
    /\ groupOut = NoGroup

NextConfig ==
    \/ PersistentPreRunE
    \/ Chdir

SpecConfig == InitConfig /\ [][NextConfig]_vars

\* Content updates made directly on a store left by scans.
NextUpdate == ExecUpdateContent
SpecUpdate == InitQuery /\ [][NextUpdate]_vars

\* The state outside the extractor and the grouping loop, at rest.
InitRest ==
    /\ fs = [path \in PdfFiles |-> Absent]
    /\ pdfs = {}
    /\ fts = EmptyBag
    /\ tx = NoTx
    /\ call = NoCall
    /\ readerView = NoView
    /\ InitScan
    /\ queryOut = NoQuery
    /\ InitLive
    /\ cwd = "/"
    /\ dbFiles = {}
    /\ cmdOut = NoCmd

\* The grouping loop run on every result list.
InitGroup ==
    /\ InitRest
    /\ extractOut = NoExtract
    /\ groupOut \in {[op |-> "call", rows |-> rows] : rows \in ResultLists}
NextGroup == GroupResults
SpecGroup == InitGroup /\ [][NextGroup]_vars

\* The extractor run on every document.
InitExtract ==
    /\ InitRest
    /\ extractOut \in {[op |-> "call", doc |-> doc] : doc \in Docs}
    /\ groupOut = NoGroup
NextExtract == ExtractPages
SpecExtract == InitExtract /\ [][NextExtract]_vars

\* ------------------------------------------------------------------ claims
\* The index rows of one path, as a bag.
IndexOf(index, path) ==
    [e \in {x \in DOMAIN index : x.path = path} |-> index[e]]

\* Number of index rows with the key (path, n).
KeyCopies(index, path, n) ==
    BagCardinality([e \in {x \in DOMAIN index : x.path = path /\ x.page_num = n}
                       |-> index[e]])

\* Page table P and index X correspond one to one, with equal content.
InSync(P, X) ==
    /\ \A r \in P :
          /\ KeyCopies(X, r.path, r.page_num) = 1
          /\ CopiesIn(IndexRow(r.path, r.page_num, r.content), X) = 1
          /\ Cardinality({q \in P : q.path = r.path /\ q.page_num = r.page_num}) = 1
    /\ \A e \in DOMAIN X :
          Cardinality({r \in P : r.path = e.path /\ r.page_num = e.page_num}) = 1

\* C1: in every state reached by UpsertPDFData calls (successful or failed)
\* and RebuildFTS calls, every page has exactly one index row with its key and
\* its content, and every index row has exactly one page with its key.
C1_PagesAndIndexOneToOne == InSync(pdfs, fts)

\* C1 witness: a replace of a path that already had pages, committed, with
\* at least two pages stored.
C1_Witness ==
    /\ call.op = "upsert"
    /\ call.result = "ok"
    /\ {r \in call.before.pdfs : r.path = call.path} # {}
    /\ Cardinality(pdfs) >= 2
    /\ BagCardinality(fts) >= 2

\* C2: when UpsertPDFData fails at any step, the pages and the index rows of
\* every path are what they were before the call.
C2_FailedUpsertChangesNothing ==
    (call.op = "upsert" /\ call.result = "err")
        => (pdfs = call.before.pdfs /\ fts = call.before.fts)

\* C2 witness: the commit of a replace fails after the old pages were deleted
\* and the new ones inserted in the transaction.
C2_Witness ==
    /\ call.op = "upsert"
    /\ call.result = "err"
    /\ call.at = "commit"
    /\ {r \in pdfs : r.path = call.path} # {}
    /\ Len(call.pages) > 0
    /\ {r \in pdfs : r.path = call.path} # NewRows(call.path, call.hash, call.pages)

\* C3: after a successful UpsertPDFData(path, hash, pages) the pages of path
\* are exactly those numbered 1..Len(pages), page k holding pages[k] and hash,
\* and the index rows of path are exactly one per page with the same content.
C3_SuccessfulUpsertReplacesAll ==
    (call.op = "upsert" /\ call.result = "ok")
        => /\ ReadPages(call.path) = NewRows(call.path, call.hash, call.pages)
           /\ {r.page_num : r \in ReadPages(call.path)} = 1..Len(call.pages)
           /\ \A r \in ReadPages(call.path) :
                 r.hash = call.hash /\ r.content = call.pages[r.page_num]
           /\ IndexOf(fts, call.path) =
                 SetToBag({IndexRow(call.path, k, call.pages[k]) : k \in 1..Len(call.pages)})

\* C3 witness: the new version has fewer pages than the one it replaced.
C3_Witness ==
    /\ call.op = "upsert"
    /\ call.result = "ok"
    /\ Len(call.pages) >= 1
    /\ Cardinality({r \in call.before.pdfs : r.path = call.path}) > Len(call.pages)

\* C4: a reader on another connection that reads the pages of a path while
\* this path is being replaced, or after, sees the complete old page set or
\* the complete new one.
C4_ReaderSeesOldOrNew ==
    (call.op = "upsert" /\ readerView # NoView)
        => \/ readerView.rows = {r \in call.before.pdfs : r.path = call.path}
           \/ readerView.rows = NewRows(call.path, call.hash, call.pages)

\* C4 witness: the reader read the old pages while the transaction had
\* already deleted them and inserted all the new ones.
C4_Witness ==
    /\ tx.st = "commit"
    /\ readerView # NoView
    /\ readerView.rows # {}
    /\ Len(tx.pages) > 0
    /\ readerView.rows # NewRows(tx.path, tx.hash, tx.pages)
    /\ {r \in tx.pdfs : r.path = tx.path} = NewRows(tx.path, tx.hash, tx.pages)

\* C5: all pages stored under one path carry the same hash, so GetStoredHash
\* has one possible answer for each path.
C5_OneHashPerPath ==
    \A path \in PdfFiles :
        /\ Cardinality({r.hash : r \in ReadPages(path)}) <= 1
        /\ Cardinality(GetStoredHash(pdfs, path)) = 1

\* C5 witness: a scan has replaced a two-page document by a version with
\* another hash.
C5_Witness ==
    /\ pc = "done"
    /\ call.op = "upsert"
    /\ call.result = "ok"
    /\ Cardinality({r \in call.before.pdfs : r.path = call.path}) = 2
    /\ \E r \in call.before.pdfs : r.path = call.path /\ r.hash # call.hash
    /\ ReadPages(call.path) # {}

\* Position i of allPdfFiles went through checkHashes without a warning.
Classified(i) == i \in 1..(hashIdx - 1) /\ <<"hash", i>> \notin warned

\* The document is Unchanged: the scan is not forced and the stored
\* fingerprint is the one of the file on disk.
Unchanged(path) ==
    /\ ~forceRescan
    /\ {r.hash : r \in ReadPages(path)} = {HashFile(fs[path])}

OnWorklist(path) ==
    \E j \in 1..Len(filesToProcess) : filesToProcess[j].Path = path

\* C6: a document whose hashing and lookup succeeded is left off the worklist
\* iff the scan is not forced and the computed hash equals the stored one;
\* otherwise it is on the worklist, once for each of its classifications, with
\* the newly computed hash. (Stated while the store is as checkHashes saw it.)
C6_WorklistIffNotUnchanged ==
    (pc \in {"hash", "process", "store", "done"} /\ processedCount = 0)
        => /\ \A i \in 1..Len(allPdfFiles) :
                 Classified(i) =>
                     /\ OnWorklist(allPdfFiles[i]) <=> ~Unchanged(allPdfFiles[i])
                     /\ \A j \in 1..Len(filesToProcess) :
                           filesToProcess[j].Path = allPdfFiles[i]
                               => filesToProcess[j].CurrentHash = HashFile(fs[allPdfFiles[i]])
           /\ Len(filesToProcess) =
                 Cardinality({i \in 1..Len(allPdfFiles) :
                                 Classified(i) /\ ~Unchanged(allPdfFiles[i])})

\* C6 witness: in one non-forced scan a changed document is on the worklist
\* and an unchanged one is left off.
C6_Witness ==
    /\ pc = "process"
    /\ ~forceRescan
    /\ processedCount = 0
    /\ \E i, j \in 1..Len(allPdfFiles) :
          /\ Classified(i) /\ Classified(j)
          /\ OnWorklist(allPdfFiles[i])
          /\ ReadPages(allPdfFiles[i]) # {}
          /\ ~OnWorklist(allPdfFiles[j])

\* C7: a non-forced scan over the folders of the previous non-forced scan,
\* which wrote no warning, with no file changed in between, has an empty
\* worklist and issues no UpsertPDFData.
C7_RepeatedScanProcessesNothing ==
    repeat => (filesToProcess = <<>> /\ pc \notin {"process", "store"} /\ tx = NoTx)

\* C8: every folder is crawled before the first hash is computed, and every
\* discovered file is classified before the first extraction or store call.
C8_PhasesInOrder ==
    /\ (pc = "hash" \/ hashIdx > 1 \/ \E i \in 1..Len(allPdfFiles) : <<"hash", i>> \in warned)
          => folderIdx = Len(folders) + 1
    /\ (pc \in {"process", "store"} \/ procIdx > 1 \/ tx # NoTx \/ call.op = "upsert")
          => (folderIdx = Len(folders) + 1 /\ hashIdx = Len(allPdfFiles) + 1)

\* C8 witness: a scan of two folders is storing a document, two being on the
\* worklist.
C8_Witness ==
    /\ pc = "store"
    /\ Len(folders) = 2
    /\ Len(allPdfFiles) >= 2
    /\ Len(filesToProcess) >= 2

\* C9: a failure for one document skips that document only: every attempted
\* worklist document is either stored or warned about, and a scan that has
\* returned has returned nil, has crawled every folder, has been through
\* every discovered file and every worklist entry, and has stored every
\* worklist document that did not fail.
C9_FailuresAreIsolated ==
    /\ processedCount + Cardinality({i \in 1..Len(filesToProcess) : <<"process", i>> \in warned})
          = procIdx - 1
    /\ pc = "done" =>
          /\ scanErr = "nil"
          /\ folderIdx = Len(folders) + 1
          /\ hashIdx = Len(allPdfFiles) + 1
          /\ procIdx = Len(filesToProcess) + 1
          /\ \A j \in 1..Len(filesToProcess) :
                <<"process", j>> \notin warned =>
                    LET path == filesToProcess[j].Path
                    IN  \E failed \in FailedSets(fs[path]) :
                           ReadPages(path) =
                               NewRows(path, HashFile(fs[path]),
                                       ExtractPagesText(fs[path], failed))

\* C9 witness: the first file could not be hashed, the first worklist
\* document could not be processed, and a later one was stored.
C9_Witness ==
    /\ pc = "done"
    /\ <<"hash", 1>> \in warned
    /\ <<"process", 1>> \in warned
    /\ processedCount >= 1

\* C10: when RebuildFTS succeeds on a store of N pages, the index holds N
\* rows, one for each page with its key and content, whatever it held before.
C10_RebuildRestoresIndex ==
    (call.op = "rebuild" /\ call.result = "ok")
        => /\ pdfs = call.before.pdfs
           /\ BagCardinality(fts) = Cardinality(pdfs)
           /\ InSync(pdfs, fts)

\* C10 witness: the index held more rows than there are pages, and did not
\* correspond to them.
C10_Witness ==
    /\ call.op = "rebuild"
    /\ call.result = "ok"
    /\ Cardinality(pdfs) >= 2
    /\ BagCardinality(call.before.fts) > Cardinality(pdfs)
    /\ ~InSync(call.before.pdfs, call.before.fts)
    /\ \E r \in pdfs : CopiesIn(IndexRow(r.path, r.page_num, r.content), call.before.fts) = 0

\* C11: a successful RebuildFTS on a store whose pages did not change leaves
\* the index as it was, a further RebuildFTS would leave it so again, and for
\* every query and limit Search can return the same row sequences after the
\* rebuild as before it.
C11_RebuildIsIdempotent ==
    (call.op = "rebuild" /\ call.result = "ok")
        => /\ pdfs = call.before.pdfs
           /\ fts = call.before.fts
           /\ RebuildFTS([pdfs |-> pdfs, fts |-> fts]).fts = fts
           /\ \A q \in Queries, limit \in Limits :
                 SearchOutcomes(call.before, q, limit)
                     = SearchOutcomes([pdfs |-> pdfs, fts |-> fts], q, limit)

\* C11 witness: a search that returned rows, then a rebuild, on a store of
\* several pages.
C11_Witness ==
    /\ call.op = "rebuild"
    /\ call.result = "ok"
    /\ Cardinality(pdfs) >= 2
    /\ queryOut.op = "search"
    /\ queryOut.before = call.before
    /\ Len(queryOut.rows) >= 2

\* C12: a Search with limit N >= 0 returns at most N rows.
C12_SearchLimitBound ==
    (queryOut.op = "search" /\ queryOut.limit >= 0)
        => Len(queryOut.rows) <= queryOut.limit

\* C12 witness: more pages match than the limit lets through.
C12_Witness ==
    /\ queryOut.op = "search"
    /\ queryOut.limit = 1
    /\ Len(queryOut.rows) = 1
    /\ BagCardinality(Joined(queryOut.before, queryOut.q)) >= 2

\* The pages of a store whose content matches the query.
MatchingPages(db, q) == {r \in db.pdfs : Match(r.content, q)}

\* The (path, page_num) of a page or a result row.
KeyOf(r) == <<r.path, r.page_num>>

\* Key k comes strictly before key l in the order of path, then page number.
KeyBefore(k, l) ==
    \/ PathRank(k[1]) < PathRank(l[1])
    \/ (k[1] = l[1] /\ k[2] < l[2])

\* C13: the rows of a successful Search are in strictly ascending order of
\* (path, page number), and they are the first `limit` matching pages in that
\* order: min(limit, matches) rows, no returned key after a matching key that
\* was left out.
C13_SearchOrderedPrefix ==
    (queryOut.op = "search" /\ queryOut.err = "nil" /\ SyntaxOk(queryOut.q))
        => LET rows == queryOut.rows
               all == {KeyOf(r) : r \in MatchingPages(queryOut.before, queryOut.q)}
               got == {KeyOf(rows[i]) : i \in DOMAIN rows}
           IN  /\ \A i, j \in DOMAIN rows : i < j => KeyBefore(KeyOf(rows[i]), KeyOf(rows[j]))
               /\ got \subseteq all
               /\ Len(rows) = IF queryOut.limit < 0 \/ queryOut.limit > Cardinality(all)
                              THEN Cardinality(all) ELSE queryOut.limit
               /\ \A k \in got, l \in all \ got : KeyBefore(k, l)

\* C13 witness: three pages of two documents match, two are asked for, and
\* the two pages of the first document are returned.
C13_Witness ==
    /\ queryOut.op = "search"
    /\ queryOut.limit = 2
    /\ Cardinality(MatchingPages(queryOut.before, queryOut.q)) = 3
    /\ Len(queryOut.rows) = 2
    /\ queryOut.rows[2].page_num = 2

\* C14: on a store whose index corresponds to its pages, a successful Search
\* returns rows for matching pages only, each key at most once, and, when the
\* limit leaves room, a row for every matching page; on the store of one
\* document with pages "foo bar" and "baz qux", Search("bar", 5) returns one
\* row, for page 1, with the markers around "bar".
C14_SearchReturnsMatchingPages ==
    (/\ queryOut.op = "search"
     /\ queryOut.err = "nil"
     /\ SyntaxOk(queryOut.q)
     /\ InSync(queryOut.before.pdfs, queryOut.before.fts))
        => LET rows == queryOut.rows
               all == MatchingPages(queryOut.before, queryOut.q)
           IN  /\ \A i \in DOMAIN rows : \E r \in all : KeyOf(r) = KeyOf(rows[i])
               /\ \A i, j \in DOMAIN rows : KeyOf(rows[i]) = KeyOf(rows[j]) => i = j
               /\ (queryOut.limit < 0 \/ queryOut.limit >= Cardinality(all))
                     => \A r \in all : \E i \in DOMAIN rows : KeyOf(rows[i]) = KeyOf(r)
               /\ (/\ queryOut.before.pdfs =
                         {PageRow("a.pdf", 1, HashFile(1), <<"foo", "bar">>),
                          PageRow("a.pdf", 2, HashFile(1), <<"baz", "qux">>)}
                   /\ queryOut.q = "bar"
                   /\ queryOut.limit = 5)
                     => rows = <<[path |-> "a.pdf", page_num |-> 1,
                                  snippet |-> << <<"foo">>, <<"[HL]", "bar", "[/HL]">> >>]>>

\* C14 witness: the search for "bar" with limit 5 on the two-page document.
C14_Witness ==
    /\ queryOut.op = "search"
    /\ queryOut.q = "bar"
    /\ queryOut.limit = 5
    /\ Cardinality(queryOut.before.pdfs) = 2
    /\ Len(queryOut.rows) = 1
    /\ queryOut.rows[1].page_num = 1

\* C15: LiveSearch("") returns no rows and no error without running a match,
\* and the live loop shows an empty list and no error while its input is
\* empty.
C15_EmptyQueryShowsNothing ==
    /\ (queryOut.op = "live" /\ queryOut.q = "")
          => (queryOut.rows = <<>> /\ queryOut.err = "nil" /\ ~queryOut.matched)
    /\ textInput = "" => (shown.items = <<>> /\ shown.err = "nil")

\* C16: a step in which Search or LiveSearch returns, with rows or with a
\* syntax error, leaves the pages, the index and the open transaction as they
\* were.
C16_QueriesChangeNothing ==
    [][(queryOut' # queryOut \/ call' = call)
          => (pdfs' = pdfs /\ fts' = fts /\ tx' = tx)]_vars

\* C16 witness: a Search failed on invalid match syntax on a store that holds
\* pages, which are still as before the call.
C16_Witness ==
    /\ queryOut.op = "search"
    /\ queryOut.err = "syntax"
    /\ Cardinality(pdfs) >= 2
    /\ queryOut.before = [pdfs |-> pdfs, fts |-> fts]

\* C17: in every step of a scan, the pages and the index rows of a path
\* change only if the path is the worklist entry being stored; the rows of
\* every other path, whether its file is gone, outside the scanned folders or
\* unchanged, stay as they are.
C17_ScanTouchesWorklistOnly ==
    [][\A path \in PdfFiles :
          (\/ {r \in pdfs' : r.path = path} # {r \in pdfs : r.path = path}
           \/ IndexOf(fts', path) # IndexOf(fts, path))
             => (/\ pc = "store"
                 /\ procIdx \in 1..Len(filesToProcess)
                 /\ filesToProcess[procIdx].Path = path)]_vars

\* C17 witness: a scan that stored one document has ended, and the pages and
\* index rows of a document whose file is gone are still there.
C17_Witness ==
    /\ pc = "done"
    /\ processedCount >= 1
    /\ \E path \in PdfFiles :
          /\ fs[path] = Absent
          /\ ~OnWorklist(path)
          /\ ReadPages(path) # {}
          /\ BagCardinality(IndexOf(fts, path)) = Cardinality(ReadPages(path))

\* The file lies in the tree below the folder.
Below(folder, path) == folder = "." \/ path = "sub/B.PDF"

\* The crawl of folder number i had to yield the file: it exists, its name
\* ends in .pdf in any case, it lies below the folder, and no directory on
\* the way to it failed in that crawl.
Readable(i, path) ==
    /\ path \in {"a.pdf", "sub/B.PDF"}
    /\ fs[path] # Absent
    /\ Below(folders[i], path)
    /\ (<<"crawl", i>> \in warned => path = "a.pdf")

Depth(d) == IF d = "/" THEN 0 ELSE IF d = "/p" THEN 1 ELSE 2

\* The directories from d up to the root that held a store file before the
\* latest command.
HoldingAbove(d, files) == {x \in files : Depth(x) <= Depth(d)}

\* C19: with no fts.db in the current directory or above it, scan uses
\* fts.db in the current directory while search, live and rebuild-fts fail
\* with no store opened and no file created; with one, every command uses
\* the nearest one and creates no file.
C19_StoreLocation ==
    cmdOut.cmd # "none" =>
        LET holding == HoldingAbove(cmdOut.cwd, cmdOut.before)
        IN  IF holding = {}
            THEN IF cmdOut.cmd = "scan"
                 THEN /\ cmdOut.DBPath = <<cmdOut.cwd, "fts.db">>
                      /\ cmdOut.err # "no database found"
                      /\ cmdOut.err = "nil" => cmdOut.after = cmdOut.before \cup {cmdOut.cwd}
                      /\ cmdOut.after \subseteq cmdOut.before \cup {cmdOut.cwd}
                 ELSE /\ cmdOut.err = "no database found"
                      /\ cmdOut.DBPath = NotFound
                      /\ cmdOut.after = cmdOut.before
            ELSE /\ cmdOut.err # "no database found"
                 /\ cmdOut.after = cmdOut.before
                 /\ \E d \in holding :
                       /\ cmdOut.DBPath = <<d, "fts.db">>
                       /\ \A x \in holding : Depth(x) <= Depth(d)

\* C19 witness: scan started two levels below the nearest store file, with
\* another one further up, uses the nearest.
C19_Witness ==
    /\ cmdOut.cmd = "scan"
    /\ cmdOut.cwd = "/p/w"
    /\ cmdOut.before = {"/", "/p"}
    /\ cmdOut.DBPath = <<"/p", "fts.db">>
    /\ cmdOut.err = "nil"

\* C20: the live loop puts every delivered result on display, whatever the
\* input holds by then and whatever result was delivered before it: the
\* display then answers that command's query, not the input's.
C20_LateResultReplacesDisplay ==
    [][\A c \in pending :
          pending' = pending \ {c}
             => /\ shown'.from = c.key
                /\ textInput' = textInput
                /\ [items |-> shown'.items, err |-> shown'.err]
                      \in queryDBForLiveSearch([pdfs |-> pdfs, fts |-> fts], c.query, LiveLimit)]_vars

\* C20 witness: "bar" was entered, then edited to "ba"; the result for "ba"
\* arrived first and the result for "bar" replaced it, so the list shows the
\* rows for "bar", highlighted for "bar", under the input "ba".
C20_Witness ==
    /\ textInput = "ba"
    /\ pending = {}
    /\ Len(shown.items) > 0
    /\ shown.items[1].Query = "bar"
    /\ shown.from > 0
    /\ shown.from < shown.newest

\* C21: ExtractPagesText on a document that opens returns one entry per
\* physical page, entry k empty when page k failed and the cleaned text of
\* page k otherwise, so no later page changes its number, and it returns no
\* error whichever pages failed.
C21_PageFailuresKeepNumbering ==
    (extractOut.op = "extract" /\ extractOut.err # "open") =>
        /\ extractOut.err = "nil"
        /\ Len(extractOut.pages) = Len(extractOut.doc)
        /\ \A k \in 1..Len(extractOut.doc) :
              /\ k \in extractOut.failed => extractOut.pages[k] = EmptyText
              /\ k \notin extractOut.failed =>
                    extractOut.pages[k] = CleanText(extractOut.doc[k])

\* A three-page document whose second page failed: the third page keeps its
\* number and its text.
C21_Witness ==
    /\ extractOut.op = "extract"
    /\ extractOut.err = "nil"
    /\ Len(extractOut.doc) = 3
    /\ extractOut.failed = {2}
    /\ extractOut.pages[2] = EmptyText
    /\ extractOut.pages[3] = CleanText(extractOut.doc[3])
    /\ extractOut.pages[3] # EmptyText

\* C22: after an in-place update of the content of page (path, n), the page
\* table and the index have changed together: the index row with key
\* (path, n) carries the page's new content, pages and index still correspond
\* one to one, and every index row with another key is as it was.
C22_UpdateReachesIndex ==
    call.op = "update" =>
        /\ InSync(pdfs, fts)
        /\ \E r \in pdfs :
              /\ r.path = call.path /\ r.page_num = call.n
              /\ r.content = call.content
              /\ CopiesIn(IndexRow(call.path, call.n, call.content), fts) = 1
        /\ \A e \in DOMAIN fts \cup DOMAIN call.before.fts :
              ~(e.path = call.path /\ e.page_num = call.n) =>
                  CopiesIn(e, fts) = CopiesIn(e, call.before.fts)

\* Page 1 of a.pdf got a content it did not have, on a store with other pages.
C22_Witness ==
    /\ call.op = "update"
    /\ call.path = "a.pdf" /\ call.n = 1
    /\ call.content = <<"qux">>
    /\ CopiesIn(IndexRow("a.pdf", 1, <<"qux">>), call.before.fts) = 0
    /\ CopiesIn(IndexRow("a.pdf", 1, <<"qux">>), fts) = 1
    /\ CopiesIn(IndexRow("sub/B.PDF", 1, <<"foo", "bar", "baz">>), fts) = 1

\* The worklist positions whose extraction or UpsertPDFData failed.
FailedDocs == {i \in 1..Len(filesToProcess) : <<"process", i>> \in warned}

\* C23: at the end of a scan that reached phase 3, the reported 'updated'
\* count is the number of worklist documents whose upsert succeeded, which is
\* at most the worklist size, which is at most the number of discovered
\* documents; and the reported 'processed' count is the number of documents
\* put through extraction and storage (the worklist, or those of it that
\* succeeded).
C23_ReportedCounts ==
    (pc = "done" /\ Len(filesToProcess) > 0) =>
        /\ ScanReport.updated = Len(filesToProcess) - Cardinality(FailedDocs)
        /\ ScanReport.updated <= Len(filesToProcess)
        /\ Len(filesToProcess) <= Len(allPdfFiles)
        /\ ScanReport.processed \in {Len(filesToProcess), ScanReport.updated}

\* C24: after a successful UpsertPDFData(path, hash, pages), GetStoredHash of
\* path returns hash, whatever the page sequence, the empty one included.
C24_StoredHashAfterUpsert ==
    (call.op = "upsert" /\ call.result = "ok") =>
        GetStoredHash(pdfs, call.path) = {call.hash}

\* What a non-forced scan started on this store and these files computes for
\* path in checkHashes: the document needs processing.
NeedsProcessingNext(path) ==
    \A storedHash \in GetStoredHash(pdfs, path) :
        needsUpdate(FALSE, HashFile(fs[path]), storedHash)

\* The failed upsert left the pages and the index rows of its path as they
\* were when it began.
FailedCallKeepsOld ==
    (call.op = "upsert" /\ call.result = "err") =>
        /\ ReadPages(call.path) = {r \in call.before.pdfs : r.path = call.path}
        /\ IndexOf(fts, call.path) = IndexOf(call.before.fts, call.path)

\* The worklist positions handled so far that hold path.
Attempts(path) ==
    {j \in 1..Len(filesToProcess) :
        filesToProcess[j].Path = path /\ (j < procIdx \/ pc = "done")}

\* C25 as stated: when extraction or UpsertPDFData fails for a document that
\* was in the store, its pages, hash and index rows stay as they were, and the
\* next non-forced scan classifies it as needing processing.
C25_FailedDocIsRetried ==
    /\ FailedCallKeepsOld
    /\ \A i \in FailedDocs :
          filesToProcess[i].StoredHash # EmptyHash =>
              NeedsProcessingNext(filesToProcess[i].Path)

\* C25, amended: when every attempt of this scan at a document that was in
\* the store has failed, its pages and index rows are as they were, the stored
\* hash is still the one checkHashes read, and the next non-forced scan
\* classifies it as needing processing exactly when the file's hash differed
\* from the stored one at classification: not when a forced scan had put the
\* unchanged file on the worklist.
C25_FailedDocKeepsOldHash ==
    /\ FailedCallKeepsOld
    /\ \A i \in FailedDocs :
          LET fileInfo == filesToProcess[i]
          IN  (/\ fileInfo.StoredHash # EmptyHash
               /\ Attempts(fileInfo.Path) \subseteq FailedDocs) =>
                  /\ GetStoredHash(pdfs, fileInfo.Path) = {fileInfo.StoredHash}
                  /\ NeedsProcessingNext(fileInfo.Path)
                         <=> fileInfo.CurrentHash # fileInfo.StoredHash

\* The upsert of a changed document that was in the store failed after its
\* delete had run inside the transaction.
C25_Witness ==
    /\ call.op = "upsert" /\ call.result = "err" /\ call.at # "begin"
    /\ \E i \in FailedDocs :
          /\ filesToProcess[i].Path = call.path
          /\ filesToProcess[i].StoredHash # EmptyHash
          /\ filesToProcess[i].CurrentHash # filesToProcess[i].StoredHash
          /\ Attempts(call.path) \subseteq FailedDocs
          /\ ReadPages(call.path) # {}

\* The distinct documents a scan has discovered.
DistinctDocs == {allPdfFiles[i] : i \in 1..Len(allPdfFiles)}

\* C26: within one scan every path is discovered, and so classified, once, is
\* on the worklist at most once, so that UpsertPDFData runs at most once for
\* it, and the 'updated' count is at most the number of distinct documents.
C26_EachPathOnce ==
    /\ \A i, j \in 1..Len(allPdfFiles) :
          allPdfFiles[i] = allPdfFiles[j] => i = j
    /\ \A i, j \in 1..Len(filesToProcess) :
          filesToProcess[i].Path = filesToProcess[j].Path => i = j
    /\ processedCount <= Cardinality(DistinctDocs)

\* C27: in every state of the live loop, an input that is empty or only
\* whitespace has an empty result list on display: the completion of a query
\* started before the input was cleared never fills the list again.
C27_BlankInputHasNoResults ==
    TrimSpace(textInput) = "" => Len(shown.items) = 0

\* The paths of a result list in order of first occurrence.
RECURSIVE FirstPaths(_, _)
FirstPaths(rows, seen) ==
    IF rows = <<>> THEN <<>>
    ELSE IF Head(rows).Path \in seen THEN FirstPaths(Tail(rows), seen)
    ELSE <<Head(rows).Path>> \o FirstPaths(Tail(rows), seen \cup {Head(rows).Path})

\* The pages of path in a result list, in the list's order.
RECURSIVE PagesOf(_, _)
PagesOf(rows, path) ==
    IF rows = <<>> THEN <<>>
    ELSE IF Head(rows).Path = path
         THEN <<[PageNum |-> Head(rows).PageNum, Snippet |-> Head(rows).Snippet]>>
              \o PagesOf(Tail(rows), path)
         ELSE PagesOf(Tail(rows), path)

====
